---- MODULE Spec2Model ----
(***************************************************************************)
(* Client bootstrap data preload (the inline script of the preload         *)
(* template): tenant and host resolution from window.__initialData, the    *)
(* three credentialed GET requests, the promises wrapping them and the     *)
(* window.__sentry_preload registry.                                       *)
(***************************************************************************)
EXTENDS Integers, Sequences, FiniteSets, TLC

VARIABLES
    initialData,      \* window.__initialData, supplied by the page renderer
    pc,               \* "start": script not yet evaluated; "done": evaluated
    caught,           \* an exception of __preloadData reached the catch block
    slug,             \* local `slug` of __preloadData (captured by makeUrl)
    host,             \* local `host` of __preloadData (captured by makeUrl)
    sentry_preload,   \* window.__sentry_preload
    promises,         \* the promise stored under each logical key
    requests,         \* the XHRs on which send() was called, in order
    responses,        \* the terminal transport event delivered per key
    awaits,           \* what each consumer of the registry awaits and has seen
    ci,               \* the jobs of one run of the backend workflow
    line,             \* one mounted stack-frame Line component
    actor             \* one mounted PriorityChangeActor component

vars == <<initialData, pc, caught, slug, host, sentry_preload, promises,
          requests, responses, awaits, ci, line, actor>>

\* The variables of the preload script, and those of everything else.
preloadVars == <<initialData, pc, caught, slug, host, sentry_preload, promises,
                 requests, responses>>
otherVars == <<awaits, ci, line, actor>>

----------------------------------------------------------------------------
(* JavaScript values read from the page data.                              *)

Undefined == [t |-> "undefined", v |-> ""]
Null == [t |-> "null", v |-> ""]
Str(s) == [t |-> "string", v |-> s]
Object == [t |-> "object", v |-> ""]

\* ToBoolean on the values above: undefined, null and "" are falsy.
Truthy(x) == x.t = "object" \/ (x.t = "string" /\ x.v # "")

\* ToString, as applied by `+` with a string operand and by setRequestHeader.
JSToString(x) ==
    CASE x.t = "undefined" -> "undefined"
      [] x.t = "null" -> "null"
      [] OTHER -> x.v

\* Strict inequality (!==) on the values above.
StrictNotEqual(a, b) == a.t # b.t \/ (a.t = "string" /\ a.v # b.v)

----------------------------------------------------------------------------
(* The logical keys and their URL suffixes.                                *)

Keys == {"organization", "projects", "teams"}

\* Mutant: the projects request is issued before the organization request.
KeyOrder_projectsFirst == <<"projects", "organization", "teams">>

KeyOrder == <<"organization", "projects", "teams">>

Suffix(k) ==
    CASE k = "organization" -> "/?detailed=0"
      [] k = "projects" ->
           "/projects/?all_projects=1&collapse=latestDeploys&collapse=unusedFeatures"
      [] k = "teams" -> "/teams/"

----------------------------------------------------------------------------
(* Inputs: the page data and the transport's terminal events.              *)

NoCustomerDomain == [present |-> FALSE, subdomain |-> Undefined]
NoLinks == [present |-> FALSE, regionUrl |-> Undefined, sentryUrl |-> Undefined]
NoTrace == [present |-> FALSE, sentry_trace |-> Undefined, baggage |-> Undefined]

UserValues == {Undefined, Null, Object}

SlugValues == {Undefined, Null, Str(""), Str("acme")}

CustomerDomains ==
    {NoCustomerDomain}
    \cup {[present |-> TRUE, subdomain |-> s] : s \in {Str("beta"), Str("")}}

RegionValues ==
    {Undefined, Null, Str("https://sentry.io"), Str("https://us.sentry.io")}

LinksValues ==
    {NoLinks}
    \cup {[present |-> TRUE, regionUrl |-> r, sentryUrl |-> Str("https://sentry.io")] :
            r \in RegionValues}

TraceValues ==
    {[present |-> TRUE, sentry_trace |-> Str("4bf92f-00f067-1"),
      baggage |-> Str("sentry-release=1")],
     [present |-> TRUE, sentry_trace |-> Str("a3ce92-b7ad6b-0"),
      baggage |-> Str("")]}

\* Page data as the data model describes it: every field other than the
\* optional ones is there.
PageData ==
    [present : {TRUE}, user : UserValues, lastOrganization : SlugValues,
     customerDomain : CustomerDomains, links : LinksValues,
     initialTrace : TraceValues]

\* window.__initialData not defined at all.
NoPageData ==
    [present |-> FALSE, user |-> Undefined, lastOrganization |-> Undefined,
     customerDomain |-> NoCustomerDomain, links |-> NoLinks,
     initialTrace |-> NoTrace]

\* Page data with missing fields as well.
AnyPageData ==
    [present : {TRUE}, user : UserValues, lastOrganization : SlugValues,
     customerDomain : CustomerDomains, links : LinksValues,
     initialTrace : TraceValues \cup {NoTrace}]
    \cup {NoPageData}

NoResponse == [event |-> "none", status |-> 0, statusText |-> "", body |-> ""]

LoadResponses ==
    {[event |-> "load", status |-> 200, statusText |-> "OK", body |-> "{}"],
     [event |-> "load", status |-> 200, statusText |-> "OK", body |-> "<html>"],
     [event |-> "load", status |-> 204, statusText |-> "No Content", body |-> ""],
     [event |-> "load", status |-> 299, statusText |-> "", body |-> "[]"],
     [event |-> "load", status |-> 199, statusText |-> "", body |-> "{}"],
     [event |-> "load", status |-> 300, statusText |-> "Multiple Choices", body |-> "null"],
     [event |-> "load", status |-> 500, statusText |-> "Internal Server Error",
      body |-> "<html>"]}

\* A network error leaves status 0 and an empty status text on the XHR.
ErrorResponses ==
    {[event |-> "error", status |-> 0, statusText |-> "", body |-> ""]}

\* The user agent terminates the fetch (the user stops the page load): the
\* XHR ends with an abort event, status 0.
AbortResponses ==
    {[event |-> "abort", status |-> 0, statusText |-> "", body |-> ""]}

----------------------------------------------------------------------------
(* Promises and the values they settle with.                               *)

NoValue == [t |-> "none", items |-> <<>>]
UndefinedValue == [t |-> "undefined", items |-> <<>>]
TypeError == [t |-> "TypeError", items |-> <<>>]
Array(items) == [t |-> "array", items |-> items]

NoPromise == [state |-> "absent", value |-> NoValue]
Pending == [state |-> "pending", value |-> NoValue]

\* resolve(value) / reject(reason): only a pending promise changes.
resolve(p, value) ==
    IF p.state = "pending" THEN [state |-> "fulfilled", value |-> value] ELSE p

reject(p, reason) ==
    IF p.state = "pending" THEN [state |-> "rejected", value |-> reason] ELSE p

\* JSON.parse on the response bodies of the model: the first three parse,
\* anything else throws a SyntaxError.
JSONValid(body) == body \in {"{}", "[]", "null"}

JSONParse(body) ==
    CASE body = "{}" -> [t |-> "object", v |-> ""]
      [] body = "[]" -> [t |-> "array", v |-> ""]
      [] body = "null" -> Null

----------------------------------------------------------------------------
(* __preloadData and its nested functions.                                 *)

\* Mutant: only an undefined user counts as "no user" (null passes).
noUser_undefinedOnly(data) == data.user.t = "undefined"

\* if (!window.__initialData.user) return;
noUser(data) == ~Truthy(data.user)

\* Mutant: the customer-domain slug takes priority over lastOrganization.
resolveSlug_domainFirst(data) ==
    IF data.customerDomain.present /\ Truthy(data.customerDomain.subdomain)
    THEN data.customerDomain.subdomain
    ELSE data.lastOrganization

\* var slug = lastOrganization; if (!slug && customerDomain) slug = ...subdomain
resolveSlug(data) ==
    IF ~Truthy(data.lastOrganization) /\ data.customerDomain.present
    THEN data.customerDomain.subdomain
    ELSE data.lastOrganization

\* var host = ''; if (links && links.regionUrl !== links.sentryUrl) host = regionUrl
resolveHost(data) ==
    IF data.links.present
       /\ StrictNotEqual(data.links.regionUrl, data.links.sentryUrl)
    THEN data.links.regionUrl
    ELSE Str("")

\* Mutant: the slug is left out of the path.
makeUrl_noSlug(h, s, suffix) ==
    JSToString(h) \o "/api/0/organizations/" \o suffix

makeUrl(h, s, suffix) ==
    JSToString(h) \o "/api/0/organizations/" \o JSToString(s) \o suffix

\* Mutant: the baggage header is set from sentry_trace.
xhrFor_baggageFromTrace(k, url, data) ==
    [key |-> k, method |-> "GET", url |-> url,
     sentry_trace |-> JSToString(data.initialTrace.sentry_trace),
     baggage |-> JSToString(data.initialTrace.sentry_trace),
     withCredentials |-> TRUE]

\* The XHR as configured when send() is called.
xhrFor(k, url, data) ==
    [key |-> k, method |-> "GET", url |-> url,
     sentry_trace |-> JSToString(data.initialTrace.sentry_trace),
     baggage |-> JSToString(data.initialTrace.baggage),
     withCredentials |-> TRUE]

\* new Promise(executor): an exception of the executor (reading a property
\* of an undefined initialTrace) rejects the promise and send() is not reached.
promiseRequest(k, url, data) ==
    IF data.initialTrace.present
    THEN [promise |-> Pending, sent |-> <<xhrFor(k, url, data)>>]
    ELSE [promise |-> reject(Pending, TypeError), sent |-> <<>>]

\* Mutant: the success range includes status 300.
onload_inclusive300(p, k, r) ==
    IF r.status >= 200 /\ r.status <= 300
    THEN IF JSONValid(r.body)
         THEN resolve(p, Array(<<JSONParse(r.body), r.statusText, k>>))
         ELSE reject(p, UndefinedValue)
    ELSE reject(p, Array(<<r.status, r.statusText>>))

\* Mutant: the catch block rejects with the status pair.
onload_parseFailAsStatus(p, k, r) ==
    IF r.status >= 200 /\ r.status < 300 /\ JSONValid(r.body)
    THEN resolve(p, Array(<<JSONParse(r.body), r.statusText, k>>))
    ELSE reject(p, Array(<<r.status, r.statusText>>))

\* Mutant: the catch block passes the caught SyntaxError on as the reason.
onload_parseErrorReason(p, k, r) ==
    IF r.status >= 200 /\ r.status < 300
    THEN IF JSONValid(r.body)
         THEN resolve(p, Array(<<JSONParse(r.body), r.statusText, k>>))
         ELSE reject(p, [t |-> "SyntaxError", items |-> <<>>])
    ELSE reject(p, Array(<<r.status, r.statusText>>))

\* Mutant: JSON.parse is called outside a try block, so a body that does not
\* parse throws out of the handler and the promise is left as it was.
onload_noCatch(p, k, r) ==
    IF r.status >= 200 /\ r.status < 300
    THEN IF JSONValid(r.body)
         THEN resolve(p, Array(<<JSONParse(r.body), r.statusText, k>>))
         ELSE p
    ELSE reject(p, Array(<<r.status, r.statusText>>))

\* xhr.onload, on the promise p of the request under key k
onload(p, k, r) ==
    IF r.status >= 200 /\ r.status < 300
    THEN IF JSONValid(r.body)
         THEN resolve(p, Array(<<JSONParse(r.body), r.statusText, k>>))
         ELSE reject(p, UndefinedValue)
    ELSE reject(p, Array(<<r.status, r.statusText>>))

\* xhr.onerror, on the promise p of the request under key k
onerror(p, k, r) == reject(p, Array(<<r.status, r.statusText>>))

\* Mutant: a rejection of one request rejects every promise still pending
\* (one shared reject instead of one per promiseRequest call).
settleOnLoad_failAll(ps, k, r) ==
    LET q == onload(ps[k], k, r)
    IN  IF q.state = "rejected"
        THEN [j \in Keys |-> IF j = k THEN q ELSE reject(ps[j], q.value)]
        ELSE [ps EXCEPT ![k] = q]

\* Mutant: the three requests share one resolve/reject pair, so a load
\* event settles every published promise anew with that request's outcome.
settleOnLoad_overwriteAll(ps, k, r) ==
    [j \in Keys |->
       IF ps[j].state = "absent" THEN ps[j] ELSE onload(Pending, j, r)]

\* Each promiseRequest call has its own xhr, resolve and reject: a terminal
\* event of the request under key k settles the promise under k alone.
settleOnLoad(ps, k, r) == [ps EXCEPT ![k] = onload(ps[k], k, r)]

settleOnError(ps, k, r) == [ps EXCEPT ![k] = onerror(ps[k], k, r)]

NoRegistry == [defined |-> FALSE, orgSlug |-> Undefined, keys |-> {}]

\* Mutant: only an undefined slug stops the script (null and "" pass).
slugMissing_undefinedOnly(s) == s.t = "undefined"

\* if (!slug) return;
slugMissing(s) == ~Truthy(s)

\* Mutant: the script stops after publishing the first key.
registryFor_firstOnly(s) ==
    [defined |-> TRUE, orgSlug |-> s,
     keys |-> IF slugMissing(s) THEN {} ELSE {"organization"}]

\* preloadPromises = {orgSlug: slug}, then the three keys unless slug is falsy
registryFor(s) ==
    [defined |-> TRUE, orgSlug |-> s,
     keys |-> IF slugMissing(s) THEN {} ELSE Keys]

\* Consumers of the registry (the application shell): bounded in number.
NumConsumers == 2
Consumers == 1..NumConsumers

NotAwaiting == [state |-> "idle", seen |-> NoPromise]
NoAwaits == [c \in Consumers |-> [k \in Keys |-> NotAwaiting]]

\* Nothing but the preload script is running.
NoCI ==
    [started |-> FALSE,
     filesChanged |-> "waiting",
     outputs |-> [f \in {"api_docs", "backend", "backend_dependencies",
                         "migration_lockfile"} |-> FALSE],
     results |-> [j \in {"api-docs", "backend-test", "backend-migration-tests",
                         "cli", "requirements", "migration", "monolith-dbs",
                         "typing"} |-> "waiting"],
     required |-> "waiting"]
NoLineProps ==
    [inApp |-> FALSE, nextFrame |-> "none", includeSystemFrames |-> FALSE,
     isExpanded |-> "undefined", frameExpandable |-> FALSE]
NoLine ==
    [mounted |-> FALSE, props |-> NoLineProps, isExpanded |-> FALSE,
     rendered |-> FALSE, initial |-> FALSE, log |-> <<>>]
\* An AvatarUser, by the name it is displayed with.
User(name) == [t |-> "object", v |-> name]
NoData == [arrived |-> FALSE, activity |-> <<>>]
NoOutput == [el |-> "none", text |-> ""]
NoActor ==
    [mounted |-> FALSE, lastEditedBy |-> Undefined, enabled |-> FALSE,
     status |-> "idle", data |-> NoData, shown |-> NoOutput]

OthersIdle ==
    /\ awaits = NoAwaits
    /\ ci = NoCI
    /\ line = NoLine
    /\ actor = NoActor

Init ==
    /\ initialData \in PageData
    /\ pc = "start"
    /\ caught = FALSE
    /\ slug = Undefined
    /\ host = Undefined
    /\ sentry_preload = NoRegistry
    /\ promises = [k \in Keys |-> NoPromise]
    /\ requests = <<>>
    /\ responses = [k \in Keys |-> NoResponse]
    /\ OthersIdle

InitAny ==
    /\ initialData \in AnyPageData
    /\ pc = "start"
    /\ caught = FALSE
    /\ slug = Undefined
    /\ host = Undefined
    /\ sentry_preload = NoRegistry
    /\ promises = [k \in Keys |-> NoPromise]
    /\ requests = <<>>
    /\ responses = [k \in Keys |-> NoResponse]
    /\ OthersIdle

\* Mutant: __preloadData() is called without the try/catch around it.
topLevel_noCatch(threw) ==
    [pc |-> IF threw THEN "error" ELSE "done", caught |-> FALSE]

\* try { __preloadData(); } catch (_) {}: an exception thrown out of
\* __preloadData reaches the empty catch block and evaluation goes on.
topLevel(threw) == [pc |-> "done", caught |-> threw]

\* Mutant: window.__sentry_preload receives a copy of preloadPromises made
\* at the assignment, so keys added afterwards are not published.
publish_snapshot(obj) == [obj EXCEPT !.keys = {}]

\* window.__sentry_preload = preloadPromises: the object itself is
\* published, so the keys assigned to it afterwards are in the registry.
publish(obj) == obj

\* try { __preloadData(); } catch (_) {}  -- one run-to-completion script task.
PreloadData ==
    /\ pc = "start"
    /\ UNCHANGED <<initialData, responses>>
    /\ UNCHANGED otherVars
    /\ IF ~initialData.present
       THEN \* window.__initialData.user throws a TypeError
            /\ pc' = topLevel(TRUE).pc
            /\ caught' = topLevel(TRUE).caught
            /\ UNCHANGED <<slug, host, sentry_preload, promises, requests>>
       ELSE /\ pc' = topLevel(FALSE).pc
            /\ caught' = topLevel(FALSE).caught
            /\ IF noUser(initialData)
               THEN UNCHANGED <<slug, host, sentry_preload, promises, requests>>
               ELSE LET s == resolveSlug(initialData)
                        h == resolveHost(initialData)
                        reg == registryFor(s)
                        made == [k \in Keys |->
                                   promiseRequest(k, makeUrl(h, s, Suffix(k)),
                                                  initialData)]
                        sends == [i \in 1..3 |->
                                    IF KeyOrder[i] \in reg.keys
                                    THEN made[KeyOrder[i]].sent ELSE <<>>]
                    IN  /\ slug' = s
                        /\ host' = h
                        /\ sentry_preload' = publish(reg)
                        /\ promises' = [k \in Keys |->
                                          IF k \in reg.keys THEN made[k].promise
                                          ELSE NoPromise]
                        /\ requests' = sends[1] \o sends[2] \o sends[3]

Sent(k) == \E i \in 1..Len(requests) : requests[i].key = k

\* The load event of the request under key k, with response r.
OnLoad(k, r) ==
    /\ pc = "done"
    /\ Sent(k)
    /\ responses[k].event = "none"
    /\ responses' = [responses EXCEPT ![k] = r]
    /\ promises' = settleOnLoad(promises, k, r)
    /\ UNCHANGED <<initialData, pc, caught, slug, host, sentry_preload, requests>>
    /\ UNCHANGED otherVars

\* The error event of the request under key k.
OnError(k, r) ==
    /\ pc = "done"
    /\ Sent(k)
    /\ responses[k].event = "none"
    /\ responses' = [responses EXCEPT ![k] = r]
    /\ promises' = settleOnError(promises, k, r)
    /\ UNCHANGED <<initialData, pc, caught, slug, host, sentry_preload, requests>>
    /\ UNCHANGED otherVars

Next ==
    \/ PreloadData
    \/ \E k \in Keys, r \in LoadResponses : OnLoad(k, r)
    \/ \E k \in Keys, r \in ErrorResponses : OnError(k, r)

Spec == Init /\ [][Next]_vars

----------------------------------------------------------------------------
(* Consumers of the registry: readers of window.__sentry_preload that await *)
(* the promise under a key.                                                *)

\* Consumer c reads the promise under key k from the registry and awaits it
\* (before or after the promise has settled).
Await(c, k) ==
    /\ pc = "done"
    /\ sentry_preload.defined
    /\ k \in sentry_preload.keys
    /\ awaits[c][k].state = "idle"
    /\ awaits' = [awaits EXCEPT ![c][k].state = "waiting"]
    /\ UNCHANGED <<preloadVars, ci, line, actor>>

\* The reaction of consumer c runs with the settlement of the promise it
\* awaits under key k.
Notify(c, k) ==
    /\ awaits[c][k].state = "waiting"
    /\ promises[k].state \in {"fulfilled", "rejected"}
    /\ awaits' = [awaits EXCEPT ![c][k] = [state |-> "seen", seen |-> promises[k]]]
    /\ UNCHANGED <<preloadVars, ci, line, actor>>

\* One page with a resolved slug, and two outcomes per request: a load that
\* fulfils the promise and a transport error that rejects it.
ConsumerPageData ==
    {d \in PageData :
       /\ d.user = Object
       /\ d.lastOrganization = Str("acme")
       /\ ~d.customerDomain.present
       /\ ~d.links.present
       /\ d.initialTrace.baggage = Str("")}

ConsumerLoadResponses == {r \in LoadResponses : r.status = 299}

InitConsumers ==
    /\ initialData \in ConsumerPageData
    /\ pc = "start"
    /\ caught = FALSE
    /\ slug = Undefined
    /\ host = Undefined
    /\ sentry_preload = NoRegistry
    /\ promises = [k \in Keys |-> NoPromise]
    /\ requests = <<>>
    /\ responses = [k \in Keys |-> NoResponse]
    /\ OthersIdle

NextConsumers ==
    \/ PreloadData
    \/ \E k \in Keys, r \in ConsumerLoadResponses : OnLoad(k, r)
    \/ \E k \in Keys, r \in ErrorResponses : OnError(k, r)
    \/ \E c \in Consumers, k \in Keys : Await(c, k)
    \/ \E c \in Consumers, k \in Keys : Notify(c, k)

SpecConsumers == InitConsumers /\ [][NextConsumers]_vars

----------------------------------------------------------------------------
(* The backend workflow: files-changed, the eight jobs that need it, and   *)
(* backend-required-check.                                                 *)

Filters == {"api_docs", "backend", "backend_dependencies", "migration_lockfile"}

FilteredJobs ==
    {"api-docs", "backend-test", "backend-migration-tests", "cli",
     "requirements", "migration", "monolith-dbs", "typing"}

\* The files-changed output each job's `if` compares with 'true'.
FilterOf(j) ==
    CASE j = "api-docs" -> "api_docs"
      [] j = "requirements" -> "backend_dependencies"
      [] j = "migration" -> "migration_lockfile"
      [] OTHER -> "backend"

\* if: needs.files-changed.outputs.<filter> == 'true', with the success()
\* that a job `if` without a status function implies.
jobIf(c, j) == c.filesChanged = "success" /\ c.outputs[FilterOf(j)]

\* needs.*.result of backend-required-check.
NeedsResults(c) ==
    {c.filesChanged} \cup {c.results[j] : j \in FilteredJobs}

\* Mutant: only a failed job is looked for, not a cancelled one.
checkForFailures_failureOnly(c) == "failure" \in NeedsResults(c)

\* contains(needs.*.result, 'failure') || contains(needs.*.result, 'cancelled')
checkForFailures(c) ==
    "failure" \in NeedsResults(c) \/ "cancelled" \in NeedsResults(c)

\* on: push / pull_request
Trigger ==
    /\ ~ci.started
    /\ ci' = [ci EXCEPT !.started = TRUE]
    /\ UNCHANGED <<preloadVars, awaits, line, actor>>

\* files-changed ends; its outputs are set only when its steps succeeded.
FilesChanged(res, outs) ==
    /\ ci.started
    /\ ci.filesChanged = "waiting"
    /\ ci' = [ci EXCEPT !.filesChanged = res,
                        !.outputs = IF res = "success" THEN outs ELSE @]
    /\ UNCHANGED <<preloadVars, awaits, line, actor>>

\* Job j, whose `if` holds, runs and ends with result res.
RunJob(j, res) ==
    /\ ci.filesChanged # "waiting"
    /\ ci.results[j] = "waiting"
    /\ jobIf(ci, j)
    /\ ci' = [ci EXCEPT !.results[j] = res]
    /\ UNCHANGED <<preloadVars, awaits, line, actor>>

\* Job j, whose `if` does not hold, is skipped.
SkipJob(j) ==
    /\ ci.filesChanged # "waiting"
    /\ ci.results[j] = "waiting"
    /\ ~jobIf(ci, j)
    /\ ci' = [ci EXCEPT !.results[j] = "skipped"]
    /\ UNCHANGED <<preloadVars, awaits, line, actor>>

\* backend-required-check (if: always()) runs once everything it needs has
\* ended; its only step exits 1 when checkForFailures holds.
RequiredCheck ==
    /\ "waiting" \notin NeedsResults(ci)
    /\ ci.required = "waiting"
    /\ ci' = [ci EXCEPT !.required =
                 IF checkForFailures(ci) THEN "failure" ELSE "success"]
    /\ UNCHANGED <<preloadVars, awaits, line, actor>>

\* No page is loaded while the workflow runs.
PreloadIdle ==
    /\ initialData = NoPageData
    /\ pc = "start"
    /\ caught = FALSE
    /\ slug = Undefined
    /\ host = Undefined
    /\ sentry_preload = NoRegistry
    /\ promises = [k \in Keys |-> NoPromise]
    /\ requests = <<>>
    /\ responses = [k \in Keys |-> NoResponse]

InitCI == PreloadIdle /\ OthersIdle

NextCI ==
    \/ Trigger
    \/ \E res \in {"success", "failure", "cancelled"},
          outs \in [Filters -> BOOLEAN] : FilesChanged(res, outs)
    \/ \E j \in FilteredJobs, res \in {"success", "failure", "cancelled"} :
          RunJob(j, res)
    \/ \E j \in FilteredJobs : SkipJob(j)
    \/ RequiredCheck

SpecCI == InitCI /\ [][NextCI]_vars

----------------------------------------------------------------------------
(* The stack-frame Line component.                                         *)

\* Events recorded per mounted Line.
MaxEvents == 4

\* The props the Line reads: frame.inApp, nextFrame (absent, in-app or
\* system), includeSystemFrames, the optional isExpanded, and what
\* isExpandable({frame, registers, ...}) of ../utils returns for the frame.
LineProps ==
    [inApp : BOOLEAN, nextFrame : {"none", "inApp", "system"},
     includeSystemFrames : BOOLEAN, isExpanded : {"undefined", "true", "false"},
     frameExpandable : BOOLEAN]

\* const leadsToApp = !frame.inApp && (nextFrame?.inApp || !nextFrame)
leadsToApp(p) == ~p.inApp /\ (p.nextFrame = "inApp" \/ p.nextFrame = "none")

\* const expandable = !leadsToApp || includeSystemFrames ? isExpandable(..) : false
expandable(p) ==
    IF ~leadsToApp(p) \/ p.includeSystemFrames THEN p.frameExpandable ELSE FALSE

\* useState(expandable ? props.isExpanded ?? false : false)
initialExpanded(p) == IF expandable(p) THEN p.isExpanded = "true" ELSE FALSE

\* Mutant: setIsExpanded(v => !v), the update computed from the current state.
toggleContext_functional(l) == [l EXCEPT !.isExpanded = ~l.isExpanded]

\* function toggleContext: setIsExpanded(!isExpanded), with the isExpanded
\* the last render gave this closure.
toggleContext(l) == [l EXCEPT !.isExpanded = ~l.rendered]

Logged(l, ev) ==
    [l EXCEPT !.log = Append(@, [ev |-> ev, isExpanded |-> l.isExpanded])]

\* First render of a Line with props p.
MountLine(p) ==
    /\ ~line.mounted
    /\ line' = [mounted |-> TRUE, props |-> p,
                isExpanded |-> initialExpanded(p),
                rendered |-> initialExpanded(p),
                initial |-> initialExpanded(p), log |-> <<>>]
    /\ UNCHANGED <<preloadVars, awaits, ci, actor>>

\* A click on the row: <StrictClick onClick={expandable ? toggleContext :
\* undefined}>, so toggleContext runs for an expandable frame only.
StrictClick ==
    /\ line.mounted
    /\ expandable(line.props)
    /\ Len(line.log) < MaxEvents
    /\ line' = Logged(toggleContext(line), "toggle")
    /\ UNCHANGED <<preloadVars, awaits, ci, actor>>

\* The rendered Native/Default line calls the onToggleContext it was handed:
\* onToggleContext={toggleContext}, whatever expandable is.
OnToggleContext ==
    /\ line.mounted
    /\ Len(line.log) < MaxEvents
    /\ line' = Logged(toggleContext(line), "toggle")
    /\ UNCHANGED <<preloadVars, awaits, ci, actor>>

\* React re-renders the Line after a state update: the new closures and the
\* class names get the current state.
Render ==
    /\ line.mounted
    /\ line.isExpanded # line.rendered
    /\ Len(line.log) < MaxEvents
    /\ line' = Logged([line EXCEPT !.rendered = line.isExpanded], "render")
    /\ UNCHANGED <<preloadVars, awaits, ci, actor>>

\* The parent re-renders the Line with new props; the state is kept (the
\* useState initial value is read at mount only).
SetProps(p) ==
    /\ line.mounted
    /\ p # line.props
    /\ Len(line.log) < MaxEvents
    /\ line' = Logged([line EXCEPT !.props = p, !.rendered = line.isExpanded],
                      "render")
    /\ UNCHANGED <<preloadVars, awaits, ci, actor>>

InitLine == PreloadIdle /\ OthersIdle

NextLine ==
    \/ \E p \in LineProps : MountLine(p)
    \/ StrictClick
    \/ OnToggleContext
    \/ Render
    \/ \E p \in LineProps : SetProps(p)

SpecLine == InitLine /\ [][NextLine]_vars

----------------------------------------------------------------------------
(* The "last edited by" line of the priority dropdown.                     *)

\* Longest activity list a response carries.
MaxActivities == 2

UserNames == {"alice", "bob"}

\* The lastEditedBy prop: absent, null, 'system' or an AvatarUser.
LastEditedByValues ==
    {Undefined, Null, Str("system")} \cup {User(n) : n \in UserNames}

\* An activity of the response: its type and its user (absent, null or a user).
Activities ==
    [type : {"SET_PRIORITY", "NOTE"},
     user : {Undefined, Null} \cup {User(n) : n \in UserNames}]
ActivityLists == UNION {[1..n -> Activities] : n \in 0..MaxActivities}

\* The response body {activity: [...]}.
Data(activity) == [arrived |-> TRUE, activity |-> activity]

\* defined(x): neither undefined nor null.
defined(x) == x.t # "undefined" /\ x.t # "null"

\* What Array.prototype.find gives when no element matches.
NoActivity == [type |-> "none", user |-> Undefined]

\* Mutant: the last SET_PRIORITY activity of the list is taken.
find_last(activity) ==
    LET matching == {i \in 1..Len(activity) : activity[i].type = "SET_PRIORITY"}
    IN  IF matching = {} THEN NoActivity
        ELSE activity[CHOOSE i \in matching : \A j \in matching : j <= i]

\* data.activity.find(activity => activity.type === SET_PRIORITY)
find(activity) ==
    LET matching == {i \in 1..Len(activity) : activity[i].type = "SET_PRIORITY"}
    IN  IF matching = {} THEN NoActivity
        ELSE activity[CHOOSE i \in matching : \A j \in matching : i <= j]

\* The useMemo of useLastEditedBy.
useLastEditedBy(incomingLastEditedBy, data) ==
    IF Truthy(incomingLastEditedBy) THEN incomingLastEditedBy
    ELSE IF ~data.arrived THEN Null
    ELSE LET user == find(data.activity).user
         IN  IF defined(user) THEN user ELSE Str("system")

InlinePlaceholder == [el |-> "InlinePlaceholder", text |-> ""]
Span(text) == [el |-> "span", text |-> text]

\* What PriorityChangeActor returns for the resolved actor.
PriorityChangeActor(resolvedLastEditedBy) ==
    IF ~Truthy(resolvedLastEditedBy) THEN InlinePlaceholder
    ELSE IF resolvedLastEditedBy = Str("system") THEN Span("Sentry")
    ELSE Span(resolvedLastEditedBy.v)

\* One render of the component a: the query option `enabled` and the element
\* returned; the query fetches when it is (or becomes) enabled, its data
\* being always stale (staleTime: 0), and keeps the data it has meanwhile.
RenderActor(a, wasEnabled) ==
    LET enabled == ~defined(a.lastEditedBy)
    IN  [a EXCEPT
           !.enabled = enabled,
           !.status = IF enabled /\ ~wasEnabled THEN "fetching" ELSE @,
           !.shown = PriorityChangeActor(useLastEditedBy(a.lastEditedBy, a.data))]

\* The dropdown footer is mounted with the prop lastEditedBy.
MountActor(lastEditedBy) ==
    /\ ~actor.mounted
    /\ actor' = RenderActor([NoActor EXCEPT !.mounted = TRUE,
                                            !.lastEditedBy = lastEditedBy],
                            FALSE)
    /\ UNCHANGED <<preloadVars, awaits, ci, line>>

\* The activities request succeeds: data is set and the component re-renders.
ActivitiesLoaded(activity) ==
    /\ actor.mounted
    /\ actor.status = "fetching"
    /\ actor' = RenderActor([actor EXCEPT !.status = "success",
                                          !.data = Data(activity)],
                            actor.enabled)
    /\ UNCHANGED <<preloadVars, awaits, ci, line>>

\* The activities request fails: data is left as it was.
ActivitiesFailed ==
    /\ actor.mounted
    /\ actor.status = "fetching"
    /\ actor' = RenderActor([actor EXCEPT !.status = "error"], actor.enabled)
    /\ UNCHANGED <<preloadVars, awaits, ci, line>>

\* The parent re-renders the dropdown with another lastEditedBy.
SetLastEditedBy(lastEditedBy) ==
    /\ actor.mounted
    /\ lastEditedBy # actor.lastEditedBy
    /\ actor' = RenderActor([actor EXCEPT !.lastEditedBy = lastEditedBy],
                            actor.enabled)
    /\ UNCHANGED <<preloadVars, awaits, ci, line>>

InitActor == PreloadIdle /\ OthersIdle

NextActor ==
    \/ \E v \in LastEditedByValues : MountActor(v)
    \/ \E activity \in ActivityLists : ActivitiesLoaded(activity)
    \/ ActivitiesFailed
    \/ \E v \in LastEditedByValues : SetLastEditedBy(v)

SpecActor == InitActor /\ [][NextActor]_vars

\* The abort event of the request under key k: the script sets no onabort
\* (and no ontimeout) handler, so nothing runs and the promise is untouched.
OnAbort(k, r) ==
    /\ pc = "done"
    /\ Sent(k)
    /\ responses[k].event = "none"
    /\ responses' = [responses EXCEPT ![k] = r]
    /\ UNCHANGED <<initialData, pc, caught, slug, host, sentry_preload,
                   promises, requests>>
    /\ UNCHANGED otherVars

NextTransport ==
    \/ Next
    \/ \E k \in Keys, r \in AbortResponses : OnAbort(k, r)

\* The terminal event of the request under key k.
Terminal(k) ==
    \/ \E r \in LoadResponses : OnLoad(k, r)
    \/ \E r \in ErrorResponses : OnError(k, r)
    \/ \E r \in AbortResponses : OnAbort(k, r)

\* A transport that ends every request it was given with a terminal event.
SpecTransport ==
    /\ Init
    /\ [][NextTransport]_vars
    /\ \A k \in Keys : WF_vars(Terminal(k))

SpecAny == InitAny /\ [][Next]_vars

----------------------------------------------------------------------------
(* Properties of the preload bootstrap.                                    *)

UserPresent == initialData.user = Object
LastPresent == Truthy(initialData.lastOrganization)
DomainPresent ==
    initialData.customerDomain.present
    /\ Truthy(initialData.customerDomain.subdomain)
SlugResolves == LastPresent \/ DomainPresent

RequestsFor(k) == {i \in 1..Len(requests) : requests[i].key = k}

\* C1: without an authenticated user the bootstrap sends no request and
\* publishes nothing: window.__sentry_preload stays unset (no orgSlug entry)
\* and no promise is created, whatever lastOrganization, customerDomain and
\* links hold.
C1_NoUserNothingPublished ==
    ~UserPresent =>
        /\ requests = <<>>
        /\ sentry_preload = NoRegistry
        /\ \A k \in Keys : promises[k] = NoPromise

C1_Witness ==
    /\ pc = "done"
    /\ initialData.user = Null
    /\ LastPresent
    /\ DomainPresent
    /\ initialData.links.present
    /\ initialData.links.regionUrl = Str("https://us.sentry.io")

\* C2: with a user and a resolved slug, exactly three GET requests are sent,
\* one per logical key, each to host + "/api/0/organizations/" + slug + the
\* key's suffix; no key ever has more than one request.
C2_ThreeRequests ==
    /\ \A k \in Keys : Cardinality(RequestsFor(k)) <= 1
    /\ pc = "start" => requests = <<>>
    /\ (pc = "done" /\ UserPresent /\ SlugResolves) =>
        /\ Len(requests) = 3
        /\ \A i \in 1..3 : requests[i].method = "GET"
        /\ \E i \in 1..3 :
             /\ requests[i].key = "organization"
             /\ requests[i].url =
                  JSToString(host) \o "/api/0/organizations/" \o slug.v
                  \o "/?detailed=0"
        /\ \E i \in 1..3 :
             /\ requests[i].key = "projects"
             /\ requests[i].url =
                  JSToString(host) \o "/api/0/organizations/" \o slug.v
                  \o "/projects/?all_projects=1&collapse=latestDeploys&collapse=unusedFeatures"
        /\ \E i \in 1..3 :
             /\ requests[i].key = "teams"
             /\ requests[i].url =
                  JSToString(host) \o "/api/0/organizations/" \o slug.v
                  \o "/teams/"

C2_Witness ==
    /\ pc = "done"
    /\ Len(requests) = 3
    /\ \E i \in 1..3 :
         requests[i].url = "/api/0/organizations/acme/?detailed=0"
    /\ \A k \in Keys : responses[k].event # "none"

\* C3: if the region host is present and differs from the default host,
\* every request URL starts with the region host; if it equals the default
\* host or is absent, every request URL has the empty host prefix.
C3_HostSelection ==
    LET links == initialData.links
        regionPresent == links.present /\ links.regionUrl.t = "string"
    IN  \A i \in 1..Len(requests) :
          IF regionPresent /\ links.regionUrl # links.sentryUrl
          THEN requests[i].url =
                 links.regionUrl.v \o "/api/0/organizations/" \o slug.v
                 \o Suffix(requests[i].key)
          ELSE requests[i].url =
                 "" \o "/api/0/organizations/" \o slug.v
                 \o Suffix(requests[i].key)

\* C4: when both lastOrganization and the customer-domain slug are present,
\* the resolved slug (in the registry and in every request URL) is
\* lastOrganization; the customer-domain slug is used only when
\* lastOrganization is absent.
C4_LastOrganizationWins ==
    (pc = "done" /\ UserPresent) =>
        /\ (LastPresent /\ DomainPresent) =>
             /\ slug = initialData.lastOrganization
             /\ sentry_preload.orgSlug = initialData.lastOrganization
             /\ Len(requests) = 3
             /\ \A i \in 1..Len(requests) :
                  requests[i].url =
                    JSToString(host) \o "/api/0/organizations/"
                    \o initialData.lastOrganization.v
                    \o Suffix(requests[i].key)
        /\ (DomainPresent
            /\ sentry_preload.orgSlug = initialData.customerDomain.subdomain) =>
             ~LastPresent

C4_Witness ==
    /\ pc = "done"
    /\ UserPresent
    /\ initialData.lastOrganization = Str("acme")
    /\ initialData.customerDomain.subdomain = Str("beta")
    /\ sentry_preload.orgSlug = Str("acme")
    /\ Len(requests) = 3

Is2xx(r) == r.status >= 200 /\ r.status < 300

\* C5: a delivered response settles its request's promise by status: a load
\* with 200 <= status < 300 and a parsing body fulfils it with (parsed body,
\* status text, xhr); a load with any other status, and a transport error,
\* reject it with (status, status text); a failure shows only as a rejection
\* made by the request's own terminal event, after the script has returned,
\* and nothing is thrown out of the script.
C5_SettlementByStatus ==
    /\ caught = FALSE
    /\ \A k \in Keys :
         promises[k].state = "rejected" =>
           pc = "done" /\ responses[k].event \in {"load", "error"}
    /\ \A k \in Keys :
         LET r == responses[k]
             p == promises[k]
         IN  /\ (r.event = "load" /\ Is2xx(r) /\ JSONValid(r.body)) =>
                  /\ p.state = "fulfilled"
                  /\ p.value = Array(<<JSONParse(r.body), r.statusText, k>>)
             /\ (r.event = "load" /\ ~Is2xx(r)) =>
                  /\ p.state = "rejected"
                  /\ p.value = Array(<<r.status, r.statusText>>)
             /\ r.event = "error" =>
                  /\ p.state = "rejected"
                  /\ p.value = Array(<<r.status, r.statusText>>)

C5_Witness ==
    /\ responses["organization"].status = 299
    /\ promises["organization"].state = "fulfilled"
    /\ responses["projects"].status = 300
    /\ promises["projects"].state = "rejected"
    /\ responses["teams"].event = "error"
    /\ promises["teams"].state = "rejected"

\* C6 (as claimed): a JSON-parse failure on a 2xx body rejects with
\* (status code, status text), like a non-2xx status.
C6_ParseFailureAsStatusPair ==
    \A k \in Keys :
      LET r == responses[k]
      IN  (r.event = "load" /\ Is2xx(r) /\ ~JSONValid(r.body)) =>
            /\ promises[k].state = "rejected"
            /\ promises[k].value = Array(<<r.status, r.statusText>>)

\* C6 (amended): a JSON-parse failure on a 2xx body is collapsed to a
\* rejection, as a non-2xx status is, but its reason is not the
\* (status code, status text) pair: reject() is called without a reason.
C6_ParseFailureRejectsWithoutPair ==
    \A k \in Keys :
      LET r == responses[k]
      IN  (r.event = "load" /\ Is2xx(r) /\ ~JSONValid(r.body)) =>
            /\ promises[k].state = "rejected"
            /\ promises[k].value # Array(<<r.status, r.statusText>>)
            /\ promises[k].value.t = "undefined"

C6_Witness ==
    /\ responses["projects"].status = 204
    /\ responses["projects"].body = ""
    /\ promises["projects"].state = "rejected"

\* C7: a 2xx response whose body is not valid JSON rejects the promise with
\* no detail (the reason is undefined: no status code, no status text, no
\* parse error) and the promise is never fulfilled.
C7_ParseFailureNoDetail ==
    \A k \in Keys :
      LET r == responses[k]
      IN  (r.event = "load" /\ Is2xx(r) /\ ~JSONValid(r.body)) =>
            /\ promises[k].state # "fulfilled"
            /\ promises[k] = [state |-> "rejected", value |-> UndefinedValue]
            /\ promises[k].value.items = <<>>

C7_Witness ==
    /\ responses["organization"].status = 200
    /\ responses["organization"].body = "<html>"
    /\ promises["organization"].state = "rejected"
    /\ \A k \in Keys : responses[k].event # "none"

\* The promise under k as its own response alone determines it.
OwnSettlement(k) ==
    LET r == responses[k]
    IN  CASE ~Sent(k) -> NoPromise
          [] Sent(k) /\ r.event = "none" -> Pending
          [] Sent(k) /\ r.event = "load" -> onload(Pending, k, r)
          [] Sent(k) /\ r.event = "error" -> onerror(Pending, k, r)

\* C8: under every interleaving of the three responses, each promise is
\* settled by its own response alone: it is pending until its own terminal
\* event, whatever happened to the other two (their rejection does not
\* reject or cancel it), its own event stays deliverable, and a step that
\* delivers another request's event leaves it unchanged.
C8_FailureIsolation ==
    /\ [](\A k \in Keys :
            /\ promises[k] = OwnSettlement(k)
            /\ (pc = "done" /\ Sent(k) /\ responses[k].event = "none") =>
                 /\ \A r \in LoadResponses : ENABLED OnLoad(k, r)
                 /\ \A r \in ErrorResponses : ENABLED OnError(k, r))
    /\ [][\A k \in Keys :
            (pc = "done" /\ responses'[k] = responses[k]) =>
               promises'[k] = promises[k]]_vars

C8_Witness ==
    /\ responses["organization"].status = 500
    /\ promises["organization"].state = "rejected"
    /\ responses["teams"].event = "error"
    /\ promises["teams"].state = "rejected"
    /\ responses["projects"].status = 200
    /\ promises["projects"].state = "fulfilled"

\* C9: once the script has run, the registry holds all three keys
\* organization, projects and teams (a slug resolved for a user) or none of
\* them; one or two of the three are never there, also after rejections.
C9_AllOrNothing ==
    /\ sentry_preload.keys \in {{}, Keys}
    /\ {k \in Keys : promises[k] # NoPromise} = sentry_preload.keys
    /\ pc = "done" =>
         (sentry_preload.keys = Keys <=> (UserPresent /\ SlugResolves))

C9_Witness ==
    /\ pc = "done"
    /\ sentry_preload.keys = Keys
    /\ promises["organization"].state = "rejected"
    /\ promises["teams"].state = "pending"

\* C10 (as claimed): with a user but no resolved slug the bootstrap is a
\* no-op: no request and an empty registry (nothing published, as without
\* a user).
C10_NoSlugNoOp ==
    (pc = "done" /\ UserPresent /\ ~SlugResolves) =>
        /\ requests = <<>>
        /\ sentry_preload = NoRegistry

\* C10 (amended): with a user but no resolved slug the bootstrap sends no
\* request and the registry holds none of the three logical keys; the
\* registry object itself is published, with the orgSlug entry holding the
\* unresolved (falsy) slug.
C10_NoSlugNoRequests ==
    (pc = "done" /\ UserPresent /\ ~SlugResolves) =>
        /\ requests = <<>>
        /\ \A k \in Keys : promises[k] = NoPromise
        /\ sentry_preload.keys = {}
        /\ sentry_preload.defined
        /\ ~Truthy(sentry_preload.orgSlug)
        /\ sentry_preload.orgSlug =
             (IF initialData.customerDomain.present
              THEN initialData.customerDomain.subdomain
              ELSE initialData.lastOrganization)

C10_Witness ==
    /\ pc = "done"
    /\ UserPresent
    /\ initialData.lastOrganization = Null
    /\ ~initialData.customerDomain.present
    /\ sentry_preload.defined
    /\ sentry_preload.orgSlug = Null

----------------------------------------------------------------------------
(* Malformed page data, headers, ordering, publication.                    *)

\* An exception was raised while the script ran: window.__initialData is
\* missing, or a promise executor read the missing initialTrace.
ExceptionRaised ==
    \/ ~initialData.present
    \/ \E k \in Keys : promises[k].value = TypeError

\* C11 (as claimed): for every page data, malformed ones included, every
\* exception raised while resolving the session or issuing the requests is
\* caught by the top-level try/catch and discarded, and evaluation of the
\* script completes normally.
C11_EveryExceptionCaughtAndDiscarded ==
    /\ pc # "error"
    /\ (pc = "done" /\ ExceptionRaised) =>
         /\ caught
         /\ \A k \in Keys : promises[k].value # TypeError

\* C11 (amended): for every page data, malformed ones included, evaluation
\* of the script completes normally and no exception reaches the page. A
\* missing initial data object throws out of __preloadData and is caught and
\* discarded at the top level, with nothing published or sent. A missing
\* trace context throws inside each promise executor: that exception never
\* reaches the top-level catch and is not discarded; it rejects the three
\* published promises with the TypeError, and no request is sent.
C11_NeverPropagates ==
    /\ pc # "error"
    /\ caught <=> (pc = "done" /\ ~initialData.present)
    /\ caught =>
         /\ sentry_preload = NoRegistry
         /\ requests = <<>>
         /\ \A k \in Keys : promises[k] = NoPromise
    /\ (pc = "done" /\ initialData.present /\ ~initialData.initialTrace.present
        /\ UserPresent /\ SlugResolves) =>
         /\ ~caught
         /\ requests = <<>>
         /\ sentry_preload.keys = Keys
         /\ \A k \in Keys :
              promises[k] = [state |-> "rejected", value |-> TypeError]

C11_Witness ==
    /\ pc = "done"
    /\ ~initialData.present
    /\ caught

\* C12: every request sent carries the headers sentry-trace and baggage
\* with the values of the page's initialTrace, the same on all three, and
\* has withCredentials set, with the region host and with the empty host.
C12_TraceHeadersAndCredentials ==
    /\ \A i \in 1..Len(requests) :
         /\ requests[i].sentry_trace = initialData.initialTrace.sentry_trace.v
         /\ requests[i].baggage = initialData.initialTrace.baggage.v
         /\ requests[i].withCredentials = TRUE
    /\ \A i, j \in 1..Len(requests) :
         /\ requests[i].sentry_trace = requests[j].sentry_trace
         /\ requests[i].baggage = requests[j].baggage
    /\ (pc = "done" /\ UserPresent /\ SlugResolves) => Len(requests) = 3

C12_Witness ==
    /\ Len(requests) = 3
    /\ host = Str("https://us.sentry.io")
    /\ requests[3].sentry_trace = "4bf92f-00f067-1"
    /\ requests[3].baggage = "sentry-release=1"
    /\ requests[3].withCredentials

\* C13: the requests are sent in the order organization, projects, teams,
\* all three before the response of any of them is processed; afterwards
\* the terminal event of each request still outstanding can be the next one
\* processed, so completions occur in any order.
C13_IssuanceOrder ==
    /\ Len(requests) \in {0, 3}
    /\ Len(requests) = 3 =>
         /\ requests[1].key = "organization"
         /\ requests[2].key = "projects"
         /\ requests[3].key = "teams"
    /\ (\E k \in Keys : responses[k].event # "none") =>
         (pc = "done" /\ Len(requests) = 3)
    /\ (pc = "done" /\ Len(requests) = 3) =>
         \A k \in Keys :
           responses[k].event = "none" =>
             \A r \in LoadResponses : ENABLED OnLoad(k, r)

C13_Witness ==
    /\ Len(requests) = 3
    /\ responses["teams"].event = "load"
    /\ responses["projects"].event = "error"
    /\ responses["organization"].event = "none"

\* C14: the registry and its three promises are published by the script
\* itself, before any load or error callback runs: whenever a request has
\* been sent or has completed, its key is in the published registry with
\* its promise.
C14_PublishedBeforeCallbacks ==
    /\ \A k \in Keys :
         (Sent(k) \/ responses[k].event # "none") =>
            /\ pc = "done"
            /\ sentry_preload.defined
            /\ k \in sentry_preload.keys
            /\ promises[k] # NoPromise
    /\ (\E k \in Keys : responses[k].event # "none") =>
         sentry_preload.keys = Keys

C14_Witness ==
    /\ pc = "done"
    /\ Len(requests) = 3
    /\ sentry_preload.keys = Keys
    /\ \A k \in Keys : responses[k].event = "none" /\ promises[k] = Pending

Settled(k) == promises[k].state \in {"fulfilled", "rejected"}

\* C16 (as claimed): under a transport that ends every request with some
\* terminal event, every published promise eventually settles.
C16_EveryFutureSettles ==
    \A k \in Keys : (k \in sentry_preload.keys) ~> Settled(k)

\* C16 (amended): under a transport that ends every request with a terminal
\* event, every published promise eventually settles or its request ended
\* with an abort event; a load or error event always settles the promise,
\* and an aborted request leaves it pending.
C16_SettlesUnlessAborted ==
    /\ \A k \in Keys :
         (k \in sentry_preload.keys) ~>
            (Settled(k) \/ responses[k].event = "abort")
    /\ [](\A k \in Keys :
            /\ responses[k].event \in {"load", "error"} => Settled(k)
            /\ responses[k].event = "abort" => promises[k] = Pending)

C16_Witness ==
    /\ responses["organization"].event = "load"
    /\ responses["organization"].body = "<html>"
    /\ Settled("organization")
    /\ responses["projects"].event = "error"
    /\ Settled("projects")
    /\ responses["teams"].event = "abort"
    /\ promises["teams"] = Pending

----------------------------------------------------------------------------
(* Consumers.                                                              *)

\* C15: a published key is never removed and its promise never replaced, a
\* promise that has settled never changes again, and every consumer that
\* awaits a key, whether it started before or after the settlement, sees
\* that one settlement: the same value or the same rejection for all.
C15_PublishOnceReadMany ==
    /\ [](\A c \in Consumers, k \in Keys :
            /\ awaits[c][k].state = "seen" =>
                 /\ awaits[c][k].seen = promises[k]
                 /\ awaits[c][k].seen.state \in {"fulfilled", "rejected"}
            /\ \A d \in Consumers :
                 (awaits[c][k].state = "seen" /\ awaits[d][k].state = "seen") =>
                    awaits[c][k].seen = awaits[d][k].seen
            /\ (k \in sentry_preload.keys /\ awaits[c][k].state = "idle") =>
                 ENABLED Await(c, k))
    /\ [][\A k \in Keys :
            /\ k \in sentry_preload.keys => k \in sentry_preload'.keys
            /\ promises[k] # NoPromise => promises'[k] # NoPromise
            /\ Settled(k) => promises'[k] = promises[k]]_vars

C15_Witness ==
    /\ promises["organization"].state = "fulfilled"
    /\ awaits[1]["organization"].state = "seen"
    /\ awaits[2]["organization"].state = "idle"
    /\ promises["projects"].state = "rejected"
    /\ \A c \in Consumers : awaits[c]["projects"].state = "seen"
    /\ promises["teams"] = Pending
    /\ awaits[1]["teams"].state = "waiting"

----------------------------------------------------------------------------
(* The backend workflow.                                                   *)

AllNeedsEnded ==
    /\ ci.filesChanged # "waiting"
    /\ \A j \in FilteredJobs : ci.results[j] # "waiting"

\* C17: backend-required-check runs once the nine jobs it needs have ended,
\* whatever their results, and not before; it fails exactly when at least
\* one of them ended with failure or cancelled, so jobs skipped because
\* their file filter did not match do not make it fail.
C17_RequiredCheck ==
    /\ (AllNeedsEnded /\ ci.required = "waiting") => ENABLED RequiredCheck
    /\ ci.required # "waiting" =>
         /\ AllNeedsEnded
         /\ ci.required \in {"success", "failure"}
         /\ ci.required = "failure" <=>
              (\/ ci.filesChanged \in {"failure", "cancelled"}
               \/ \E j \in FilteredJobs :
                    ci.results[j] \in {"failure", "cancelled"})
    /\ \A j \in FilteredJobs :
         (ci.filesChanged = "success" /\ ~ci.outputs[FilterOf(j)]
          /\ ci.results[j] # "waiting") => ci.results[j] = "skipped"

C17_Witness ==
    /\ ci.required = "success"
    /\ ci.filesChanged = "success"
    /\ ci.results["api-docs"] = "skipped"
    /\ ci.results["migration"] = "skipped"
    /\ ci.results["typing"] = "success"

----------------------------------------------------------------------------
(* The stack-frame Line component.                                         *)

\* C18: in every state of a mounted Line, a frame shown expanded is
\* expandable: a non-expandable frame mounts collapsed whatever isExpanded
\* says, and neither clicks, toggle callbacks nor prop changes leave a
\* non-expandable frame expanded.
C18_ExpandedIsExpandable ==
    line.mounted =>
        /\ (line.rendered => expandable(line.props))
        /\ (line.isExpanded => expandable(line.props))

\* The expanded state before the i-th recorded event.
StateBefore(i) == IF i = 1 THEN line.initial ELSE line.log[i - 1].isExpanded

\* C19 (as claimed): every toggleContext invocation inverts the expanded
\* state it finds, so two toggles return the frame to the state before
\* them, also when no render happens between the two.
C19_TwoTogglesRestore ==
    \A i \in 1..Len(line.log) :
      /\ line.log[i].ev = "toggle" => line.log[i].isExpanded = ~StateBefore(i)
      /\ (i > 1 /\ line.log[i].ev = "toggle" /\ line.log[i - 1].ev = "toggle") =>
           line.log[i].isExpanded = StateBefore(i - 1)

\* C19 (amended): every toggleContext invocation sets the expanded state to
\* the negation of the state of the last render. Two toggles with a render
\* between them return the frame to the state before them; two toggles
\* delivered before the component re-renders both set the same value and
\* leave the frame inverted once.
C19_ToggleNegatesRendered ==
    \A i \in 1..Len(line.log) :
      /\ (line.log[i].ev = "toggle" /\ (i = 1 \/ line.log[i - 1].ev = "render")) =>
           line.log[i].isExpanded = ~StateBefore(i)
      /\ (i > 2 /\ line.log[i].ev = "toggle" /\ line.log[i - 1].ev = "render"
          /\ line.log[i - 2].ev = "toggle"
          /\ (i = 3 \/ line.log[i - 3].ev = "render")) =>
           line.log[i].isExpanded = StateBefore(i - 2)
      /\ (i > 1 /\ line.log[i].ev = "toggle" /\ line.log[i - 1].ev = "toggle") =>
           /\ line.log[i].isExpanded = line.log[i - 1].isExpanded
           /\ (i = 2 \/ line.log[i - 2].ev = "render") =>
                line.log[i].isExpanded = ~StateBefore(i - 1)

C19_Witness ==
    /\ Len(line.log) = 4
    /\ line.log[1].ev = "toggle"
    /\ line.log[2].ev = "toggle"
    /\ line.log[2].isExpanded = ~line.initial
    /\ line.log[3].ev = "render"
    /\ line.log[4].ev = "toggle"
    /\ line.log[4].isExpanded = line.initial

\* The lastEditedBy prop carries an actor ('system' or a user).
Supplied == actor.lastEditedBy \notin {Undefined, Null}

\* The text for the first SET_PRIORITY activity of a list: its user's name,
\* or Sentry when there is none or it has no user.
ExpectedActor(activity) ==
    LET matching == {i \in 1..Len(activity) : activity[i].type = "SET_PRIORITY"}
    IN  IF matching = {} THEN "Sentry"
        ELSE LET first == CHOOSE i \in matching : \A j \in matching : i <= j
             IN  IF activity[first].user \in {Undefined, Null} THEN "Sentry"
                 ELSE activity[first].user.v

C20_Shown ==
    actor.mounted =>
        /\ Supplied =>
              /\ ~actor.enabled
              /\ actor.shown =
                    Span(IF actor.lastEditedBy = Str("system") THEN "Sentry"
                         ELSE actor.lastEditedBy.v)
        /\ ~Supplied =>
              /\ actor.shown = InlinePlaceholder <=> ~actor.data.arrived
              /\ actor.data.arrived =>
                    actor.shown = Span(ExpectedActor(actor.data.activity))

C20_RequestStarts ==
    (actor.status # "fetching" /\ actor'.status = "fetching")
        => actor'.lastEditedBy \in {Undefined, Null}

\* C20: with lastEditedBy supplied the activities request is not enabled (and
\* none is started) and the supplied actor is shown; without it the
\* placeholder is shown exactly while no activities data has arrived, and
\* after that the user of the first SET_PRIORITY activity, or Sentry when
\* there is no such activity or it has no user.
C20_LastEditedBy == []C20_Shown /\ [][C20_RequestStarts]_vars

\* The activities arrived with two SET_PRIORITY activities by different users
\* and no actor was supplied.
C20_Witness ==
    /\ actor.mounted
    /\ ~Supplied
    /\ actor.status = "success"
    /\ Len(actor.data.activity) = 2
    /\ \A i \in 1..2 : actor.data.activity[i].type = "SET_PRIORITY"
    /\ actor.data.activity[1].user = User("alice")
    /\ actor.data.activity[2].user = User("bob")
    /\ actor.shown = Span("alice")

====
